---- MODULE Spec2Model ----
(***************************************************************************)
(* Prompt CRUD API: the serverless handler (netlify/functions/prompts.js)  *)
(* and the long-running Express server (server/index.js) in front of the   *)
(* Supabase table 'prompts'.                                               *)
(*                                                                         *)
(* A request arrives (Receive), one deployment handles it (NetlifyHandle,   *)
(* Netlify2Handle, Netlify3Handle for the three copies of the serverless   *)
(* handler, ExpressHandle for the server: the whole handler, its storage   *)
(* call included), and the response is delivered to the client (Deliver).  *)
(***************************************************************************)
EXTENDS Integers, Sequences, FiniteSets, TLC

VARIABLES table, nextId, clock, env, phase, server, req, out, resp, before, calls,
          flight, hist, ui, net

vars == <<table, nextId, clock, env, phase, server, req, out, resp, before, calls,
          flight, hist, ui, net>>

\* the requests handled concurrently (what each client has in flight, and the
\* storage steps taken since the store was last quiet) and the UI (the state
\* of the App component, and its fetchPrompts calls in flight)
others == <<flight, hist, ui, net>>

(***************************************************************************)
(* Bounds.                                                                 *)
(***************************************************************************)
\* number of rows the table generates an id for in one run
MaxId == 2
\* number of fetchPrompts calls in flight at the same time
MaxFetch == 2
\* number of prompts other clients create while the page is open
MaxOthers == 1

(***************************************************************************)
(* Values.                                                                 *)
(***************************************************************************)
\* a key that is not in the JSON body (JavaScript undefined)
ABSENT == "<undefined>"
\* a column the insert did not supply: the SQL default, NULL
NULL == "<null>"

\* JavaScript truthiness of a body field: undefined and '' are falsy
Falsy(v) == v = ABSENT \/ v = ""

NameVals == {ABSENT, "", "n1", "n2"}
DescVals == {ABSENT, "d1"}
PromptVals == {ABSENT, "", "p1"}
LocVals == {ABSENT, "l1"}
BizVals == {ABSENT, "b1"}
KbVals == {ABSENT, "k1"}
InvVals == {ABSENT, "i1"}
BodyIdVals == {ABSENT, "9"}

\* JSON.stringify(formData) with every field of the UI's form filled in
FormBody ==
  [json |-> "object", name |-> "n1", description |-> ABSENT, prompt |-> "p1",
   location_id |-> "l1", business_name |-> "b1", knowledgebase |-> "k1",
   inventory |-> "i1", id |-> ABSENT]

\* event.body after JSON.parse: json = "invalid" stands for a text that
\* JSON.parse rejects, json = "null" for the JSON literal null
Bodies ==
  { b \in [json : {"object", "invalid", "null"}, name : NameVals,
           description : DescVals,
           prompt : PromptVals, location_id : LocVals, business_name : BizVals,
           knowledgebase : KbVals, inventory : InvVals, id : BodyIdVals] :
      /\ (b.json # "object") =>
            /\ b.name = ABSENT /\ b.description = ABSENT /\ b.prompt = ABSENT
            /\ b.location_id = ABSENT /\ b.business_name = ABSENT
            /\ b.knowledgebase = ABSENT
      \* the three remaining extra keys come together or not at all
      /\ (b.knowledgebase = ABSENT) = (b.inventory = ABSENT)
      /\ (b.knowledgebase = ABSENT) = (b.id = ABSENT) }
    \cup {FormBody}

EmptyBody ==
  [json |-> "object", name |-> ABSENT, description |-> ABSENT, prompt |-> ABSENT,
   location_id |-> ABSENT, business_name |-> ABSENT, knowledgebase |-> ABSENT,
   inventory |-> ABSENT, id |-> ABSENT]

Methods == {"GET", "POST", "PUT", "DELETE", "OPTIONS", "PATCH"}

\* ids a path can name: every id the table can generate, and one it cannot
PathIds == {ToString(i) : i \in 1..(MaxId + 1)}

\* the path after the deployment's base ('/.netlify/functions/prompts', '/api'),
\* as its '/'-separated segments: <<>> is '/', <<"prompts", "">> is '/prompts/'
Segs ==
  {<<>>, <<"prompts">>, <<"prompts", "">>, <<"health">>, <<"other">>,
   <<"prompts", "1", "x">>} \cup {<<"prompts", i>> : i \in PathIds}

\* base = FALSE: a path that does not contain the deployment's base
Paths == {[base |-> TRUE, segs |-> s] : s \in Segs}
           \cup {[base |-> FALSE, segs |-> <<"prompts">>]}

InvalidBody == [EmptyBody EXCEPT !.json = "invalid"]

NullBody == [EmptyBody EXCEPT !.json = "null"]

\* GET, DELETE, OPTIONS and PATCH come without a body; elsewhere than under
\* '/prompts' the body is the empty object or an unparsable one
Events ==
  { e \in [httpMethod : Methods, path : Paths, body : Bodies] :
      /\ e.httpMethod \notin {"POST", "PUT"} => e.body = EmptyBody
      /\ e.body \notin {EmptyBody, InvalidBody} =>
            /\ e.path.base
            /\ Len(e.path.segs) \in {1, 2}
            /\ e.path.segs[1] = "prompts" }

\* process.env.SUPABASE_URL and process.env.SUPABASE_ANON_KEY, unset or set
Envs == [url : {ABSENT, "u1"}, key : {ABSENT, "k1"}]

\* !supabaseUrl || !supabaseKey is false
Configured(cfg) == ~Falsy(cfg.url) /\ ~Falsy(cfg.key)

\* what the environment does to this request: whether loading the client
\* library and creating the client succeeds, and whether the storage call
\* returns data ("ok"), an error, or neither data nor error ("null")
Outcomes == [init : BOOLEAN, storage : {"ok", "error", "null"}]

\* the outcomes that make a difference for request e: the storage outcome when
\* the client was created, a null data value for a GET
OutcomesFor(e) ==
  { o \in Outcomes : /\ ~o.init => o.storage = "ok"
                     /\ o.storage = "null" => e.httpMethod = "GET" }

\* the message of the error object a failed storage call returns
StorageFailure == "connection to the store failed"

(***************************************************************************)
(* The storage collaborator: the table 'prompts'.                          *)
(***************************************************************************)
Ids(rows) == {r.id : r \in rows}

RowOf(rows, id) == CHOOSE r \in rows : r.id = id

Col(v) == IF v = ABSENT THEN NULL ELSE v

\* a write payload: the columns the handler passes to insert() or update()
NoPayload ==
  [name |-> ABSENT, description |-> ABSENT, prompt |-> ABSENT,
   location_id |-> ABSENT, business_name |-> ABSENT, knowledgebase |-> ABSENT,
   inventory |-> ABSENT, id |-> ABSENT]

\* supabase.from('prompts').insert([p]).select().single()
StorageInsert(db, p, o) ==
  IF o.storage = "error"
    THEN [db |-> db, error |-> StorageFailure, data |-> <<>>]
    ELSE LET row == [id |-> IF p.id = ABSENT THEN ToString(db.nextId) ELSE p.id,
                     name |-> Col(p.name), description |-> Col(p.description),
                     prompt |-> Col(p.prompt), location_id |-> Col(p.location_id),
                     business_name |-> Col(p.business_name),
                     knowledgebase |-> Col(p.knowledgebase),
                     inventory |-> Col(p.inventory),
                     created_at |-> db.clock]
         IN [db |-> [rows |-> db.rows \cup {row}, nextId |-> db.nextId + 1,
                     clock |-> db.clock + 1],
             error |-> "", data |-> <<row>>]

Set(old, v) == IF v = ABSENT THEN old ELSE v

Patch(r, p) ==
  [id |-> Set(r.id, p.id), name |-> Set(r.name, p.name),
   description |-> Set(r.description, p.description),
   prompt |-> Set(r.prompt, p.prompt),
   location_id |-> Set(r.location_id, p.location_id),
   business_name |-> Set(r.business_name, p.business_name),
   knowledgebase |-> Set(r.knowledgebase, p.knowledgebase),
   inventory |-> Set(r.inventory, p.inventory),
   created_at |-> r.created_at]

\* supabase.from('prompts').update(p).eq('id', id).select().single():
\* single() reports PGRST116 when the update returned no row
StorageUpdate(db, id, p, o) ==
  IF o.storage = "error"
    THEN [db |-> db, error |-> StorageFailure, data |-> <<>>]
    ELSE IF id \notin Ids(db.rows)
      THEN [db |-> db, error |-> "PGRST116", data |-> <<>>]
      ELSE LET old == RowOf(db.rows, id)
               new == Patch(old, p)
           IN [db |-> [db EXCEPT !.rows = (db.rows \ {old}) \cup {new}],
               error |-> "", data |-> <<new>>]

StorageDelete_All(db, id, o) ==
  IF o.storage = "error"
    THEN [db |-> db, error |-> StorageFailure, data |-> <<>>]
    ELSE [db |-> [db EXCEPT !.rows = {}], error |-> "", data |-> <<>>]

StorageDelete_Neq(db, id, o) ==
  IF o.storage = "error"
    THEN [db |-> db, error |-> StorageFailure, data |-> <<>>]
    ELSE [db |-> [db EXCEPT !.rows = {r \in db.rows : r.id = id}],
          error |-> "", data |-> <<>>]

\* supabase.from('prompts').delete().eq('id', id): no error when no row matches
StorageDelete(db, id, o) ==
  IF o.storage = "error"
    THEN [db |-> db, error |-> StorageFailure, data |-> <<>>]
    ELSE [db |-> [db EXCEPT !.rows = {r \in db.rows : r.id # id}],
          error |-> "", data |-> <<>>]

RECURSIVE SortByCreatedAt(_)
SortByCreatedAt(rows) ==
  IF rows = {} THEN <<>>
  ELSE LET first == CHOOSE r \in rows : \A s \in rows : r.created_at <= s.created_at
       IN <<first>> \o SortByCreatedAt(rows \ {first})

\* supabase.from('prompts').select('*').order('created_at', {ascending: true})
SortDescending(rows) ==
  LET asc == SortByCreatedAt(rows)
  IN [k \in 1..Len(asc) |-> asc[Len(asc) + 1 - k]]

StorageSelect_Descending(db, o) ==
  IF o.storage = "error"
    THEN [db |-> db, error |-> StorageFailure, data |-> <<>>, nodata |-> FALSE]
    ELSE IF o.storage = "null"
      THEN [db |-> db, error |-> "", data |-> <<>>, nodata |-> TRUE]
      ELSE [db |-> db, error |-> "", data |-> SortDescending(db.rows),
            nodata |-> FALSE]

\* nodata: the call returned { data: null, error: null }
StorageSelect(db, o) ==
  IF o.storage = "error"
    THEN [db |-> db, error |-> StorageFailure, data |-> <<>>, nodata |-> FALSE]
    ELSE IF o.storage = "null"
      THEN [db |-> db, error |-> "", data |-> <<>>, nodata |-> TRUE]
      ELSE [db |-> db, error |-> "", data |-> SortByCreatedAt(db.rows),
            nodata |-> FALSE]

(***************************************************************************)
(* Responses.                                                              *)
(***************************************************************************)
\* kind: "absent" no body key, "empty" '', "array", "null" (the JSON text
\* null), "object" (a row), "health", "error" (a JSON object with an error
\* key), "html" (not JSON), "rejected" (no response object: the handler's
\* promise rejected).  keys: the keys of a JSON object the handler builds.
Response(status, kind, error, data) ==
  [status |-> status, kind |-> kind, error |-> error, data |-> data,
   keys |-> IF kind = "error" THEN {"error"} ELSE {},
   details |-> "", method |-> "", path |-> <<>>,
   urlSet |-> FALSE, keySet |-> FALSE, headers |-> {}]

\* the headers object of the serverless handlers
jsonHeaders ==
  { <<"Access-Control-Allow-Origin", "*">>,
    <<"Access-Control-Allow-Headers", "Content-Type">>,
    <<"Access-Control-Allow-Methods", "GET,POST,PUT,DELETE,OPTIONS">>,
    <<"Content-Type", "application/json">> }

\* { statusCode, headers: jsonHeaders, body }
Reply(status, kind, error, data) ==
  [Response(status, kind, error, data) EXCEPT !.headers = jsonHeaders]

Result(r, db, cs) == [resp |-> r, db |-> db, calls |-> cs]

Call(op, res) == [op |-> op, error |-> res.error]

RequiredMsg == "Name, description, and prompt are required"

MissingRequired_DescriptionOnly(b) == Falsy(b.description)

MissingRequired_NoName(b) == Falsy(b.description) \/ Falsy(b.prompt)

MissingRequired_NoPrompt(b) == Falsy(b.name) \/ Falsy(b.description)

\* !name || !description || !prompt
MissingRequired(b) == Falsy(b.name) \/ Falsy(b.description) \/ Falsy(b.prompt)

WritePayload_Spread(b) ==
  [name |-> b.name, description |-> b.description, prompt |-> b.prompt,
   location_id |-> b.location_id, business_name |-> b.business_name,
   knowledgebase |-> b.knowledgebase, inventory |-> b.inventory, id |-> b.id]

WritePayload_WithId(b) ==
  [NoPayload EXCEPT !.name = b.name, !.description = b.description,
                    !.prompt = b.prompt, !.id = b.id]

\* { name, description, prompt }: the only keys taken from the body
WritePayload(b) ==
  [NoPayload EXCEPT !.name = b.name, !.description = b.description,
                    !.prompt = b.prompt]

(***************************************************************************)
(* netlify/functions/prompts.js: exports.handler                           *)
(***************************************************************************)
\* event.path.match(/\.netlify\/functions\/prompts(.*)$/): the part after the
\* base, '/' when the base is not in the path
Subpath(e) == IF e.path.base THEN e.path.segs ELSE <<>>

\* /^\/prompts\/([^\/]+)$/.test(subpath)
IsItemPath(sp) == Len(sp) = 2 /\ sp[1] = "prompts" /\ sp[2] # ""

\* catch (err): 500 with String(err.message) as details
ServerError_NoDetails(err, db, cs) ==
  Result(Reply(500, "error", "Server error", <<>>), db, cs)

ServerError(err, db, cs) ==
  Result([Reply(500, "error", "Server error", <<>>)
            EXCEPT !.keys = {"error", "details"}, !.details = err], db, cs)

\* the message of the SyntaxError JSON.parse throws
ParseFailure == "Unexpected token in JSON"

\* the message of the TypeError const { name, description, prompt } = null throws
DestructureFailure == "Cannot destructure property 'name' of null"

\* the message of the error a failed import or createClient throws
InitFailure == "Cannot load the client library"

ListOp_Raw(db, o) ==
  LET r == StorageSelect(db, o)
      cs == <<Call("select", r)>>
  IN IF r.error # "" THEN ServerError(r.error, r.db, cs)
     ELSE Result(Reply(200, IF r.nodata THEN "null" ELSE "array", "", r.data),
                 r.db, cs)

\* JSON.stringify(data || [])
ListOp(db, o) ==
  LET r == StorageSelect(db, o)
      cs == <<Call("select", r)>>
  IN IF r.error # "" THEN ServerError(r.error, r.db, cs)
     ELSE Result(Reply(200, "array", "", IF r.nodata THEN <<>> ELSE r.data),
                 r.db, cs)

CreateOp(b, db, o) ==
  IF b.json = "invalid" THEN ServerError(ParseFailure, db, <<>>)
  ELSE IF b.json = "null" THEN ServerError(DestructureFailure, db, <<>>)
  ELSE IF MissingRequired(b)
    THEN Result(Reply(400, "error", RequiredMsg, <<>>), db, <<>>)
    ELSE LET r == StorageInsert(db, WritePayload(b), o)
             cs == <<Call("insert", r)>>
         IN IF r.error # "" THEN ServerError(r.error, r.db, cs)
            ELSE Result(Reply(201, "object", "", r.data), r.db, cs)

UpdateOp(id, b, db, o) ==
  IF b.json = "invalid" THEN ServerError(ParseFailure, db, <<>>)
  ELSE IF b.json = "null" THEN ServerError(DestructureFailure, db, <<>>)
  ELSE IF MissingRequired(b)
    THEN Result(Reply(400, "error", RequiredMsg, <<>>), db, <<>>)
    ELSE LET r == StorageUpdate(db, id, WritePayload(b), o)
             cs == <<Call("update", r)>>
         IN IF r.error = "PGRST116"
              THEN Result(Reply(404, "error", "Prompt not found", <<>>), r.db, cs)
            ELSE IF r.error # "" THEN ServerError(r.error, r.db, cs)
            ELSE Result(Reply(200, "object", "", r.data), r.db, cs)

DeleteOp(id, db, o) ==
  LET r == StorageDelete(db, id, o)
      cs == <<Call("delete", r)>>
  IN IF r.error # "" THEN ServerError(r.error, r.db, cs)
     ELSE Result(Reply(204, "empty", "", <<>>), r.db, cs)

\* { statusCode: 204, headers: jsonHeaders }
Preflight_NoHeaders(db) == Result(Response(204, "absent", "", <<>>), db, <<>>)

Preflight(db) == Result(Reply(204, "absent", "", <<>>), db, <<>>)

MissingEnvMsg == "Missing SUPABASE_URL or SUPABASE_ANON_KEY environment variables"

MissingEnv_Message(db) ==
  Result([Reply(500, "error", "", <<>>)
            EXCEPT !.keys = {"message"}, !.details = MissingEnvMsg], db, <<>>)

\* { error: 'Missing SUPABASE_URL or SUPABASE_ANON_KEY environment variables' }
MissingEnv(db) == Result(Reply(500, "error", MissingEnvMsg, <<>>), db, <<>>)

\* the catch around the import and createClient
InitError(db) ==
  Result([Reply(500, "error", "Initialization error", <<>>)
            EXCEPT !.keys = {"error", "details"}, !.details = InitFailure],
         db, <<>>)

\* the import or createClient throws outside any try: the promise the handler
\* returned rejects and there is no response object
Rejected(db) == Result(Response(0, "rejected", "", <<>>), db, <<>>)

HealthResponse_Leak(cfg) ==
  [Reply(200, "health", "", <<>>)
     EXCEPT !.keys = {"ok", "env"}, !.details = cfg.url,
            !.urlSet = ~Falsy(cfg.url), !.keySet = ~Falsy(cfg.key)]

\* { ok: true, env: { SUPABASE_URL_SET, SUPABASE_ANON_KEY_SET, node } }
HealthResponse(cfg) ==
  [Reply(200, "health", "", <<>>)
     EXCEPT !.keys = {"ok", "env"},
            !.urlSet = ~Falsy(cfg.url), !.keySet = ~Falsy(cfg.key)]

\* { error: 'Not found', method: event.httpMethod, path: subpath }
NotFound(e, subpath, db) ==
  Result([Reply(404, "error", "Not found", <<>>)
            EXCEPT !.keys = {"error", "method", "path"},
                   !.method = e.httpMethod, !.path = subpath], db, <<>>)

Dispatch_ListAnywhere(e, subpath, cfg, db, o) ==
  IF e.httpMethod = "GET" /\ subpath = <<"health">>
    THEN Result(HealthResponse(cfg), db, <<>>)
  ELSE IF e.httpMethod = "GET" THEN ListOp(db, o)
  ELSE IF e.httpMethod = "POST" /\ subpath = <<"prompts">>
    THEN CreateOp(e.body, db, o)
  ELSE IF e.httpMethod = "PUT" /\ IsItemPath(subpath)
    THEN UpdateOp(subpath[2], e.body, db, o)
  ELSE IF e.httpMethod = "DELETE" /\ IsItemPath(subpath)
    THEN DeleteOp(subpath[2], db, o)
  ELSE NotFound(e, subpath, db)

\* the try block: health, list, create, update, delete, not found
Dispatch(e, subpath, cfg, db, o) ==
  IF e.httpMethod = "GET" /\ subpath = <<"health">>
    THEN Result(HealthResponse(cfg), db, <<>>)
  ELSE IF e.httpMethod = "GET" /\ (subpath = <<>> \/ subpath = <<"prompts">>)
    THEN ListOp(db, o)
  ELSE IF e.httpMethod = "POST" /\ subpath = <<"prompts">>
    THEN CreateOp(e.body, db, o)
  ELSE IF e.httpMethod = "PUT" /\ IsItemPath(subpath)
    THEN UpdateOp(subpath[2], e.body, db, o)
  ELSE IF e.httpMethod = "DELETE" /\ IsItemPath(subpath)
    THEN DeleteOp(subpath[2], db, o)
  ELSE NotFound(e, subpath, db)

Handler_EnvFirst(e, cfg, db, o) ==
  IF ~Configured(cfg) THEN MissingEnv(db)
  ELSE IF e.httpMethod = "OPTIONS" THEN Preflight(db)
  ELSE IF ~o.init THEN InitError(db)
  ELSE Dispatch(e, Subpath(e), cfg, db, o)

Handler(e, cfg, db, o) ==
  IF e.httpMethod = "OPTIONS" THEN Preflight(db)
  ELSE IF ~Configured(cfg) THEN MissingEnv(db)
  ELSE IF ~o.init THEN InitError(db)
  ELSE Dispatch(e, Subpath(e), cfg, db, o)

(***************************************************************************)
(* netlify/functions/prompts.js, second exports.handler: the client        *)
(* library is required at the top of the file                              *)
(***************************************************************************)
\* event.path.startsWith(base) ? event.path.slice(base.length) : event.path
Subpath2(e) == e.path.segs

\* { error: 'Not found', path: subpath }
NotFound2(subpath, db) ==
  Result([Reply(404, "error", "Not found", <<>>)
            EXCEPT !.keys = {"error", "path"}, !.path = subpath], db, <<>>)

Dispatch2(e, subpath, db, o) ==
  IF e.httpMethod = "GET" /\ subpath = <<"prompts">> THEN ListOp(db, o)
  ELSE IF e.httpMethod = "POST" /\ subpath = <<"prompts">>
    THEN CreateOp(e.body, db, o)
  ELSE IF e.httpMethod = "PUT" /\ IsItemPath(subpath)
    THEN UpdateOp(subpath[2], e.body, db, o)
  ELSE IF e.httpMethod = "DELETE" /\ IsItemPath(subpath)
    THEN DeleteOp(subpath[2], db, o)
  ELSE NotFound2(subpath, db)

\* createClient is called outside the try block
Handler2(e, cfg, db, o) ==
  IF e.httpMethod = "OPTIONS" THEN Preflight(db)
  ELSE IF ~Configured(cfg) THEN MissingEnv(db)
  ELSE IF ~o.init THEN Rejected(db)
  ELSE Dispatch2(e, Subpath2(e), db, o)

(***************************************************************************)
(* server/supabaseClient.js: exports.handler, the copy of the serverless   *)
(* handler that imports the client library before it reads the settings    *)
(***************************************************************************)
Handler3(e, cfg, db, o) ==
  IF e.httpMethod = "OPTIONS" THEN Preflight(db)
  ELSE IF ~o.init THEN Rejected(db)
  ELSE IF ~Configured(cfg) THEN MissingEnv(db)
  ELSE Dispatch(e, Subpath(e), cfg, db, o)

(***************************************************************************)
(* server/index.js: the Express routes                                     *)
(***************************************************************************)
\* Express matches '/api/prompts' with or without a trailing slash
IsCollectionRoute(e) ==
  e.path.base /\ (e.path.segs = <<"prompts">> \/ e.path.segs = <<"prompts", "">>)

\* '/api/prompts/:id'
IsItemRoute(e) == e.path.base /\ IsItemPath(e.path.segs)

Failed(msg, db, cs) == Result(Response(500, "error", msg, <<>>), db, cs)

\* res.json(data || [])
ExpressList(db, o) ==
  LET r == StorageSelect(db, o)
      cs == <<Call("select", r)>>
  IN IF r.error # "" THEN Failed("Failed to fetch prompts", r.db, cs)
     ELSE Result(Response(200, "array", "", IF r.nodata THEN <<>> ELSE r.data),
                 r.db, cs)

ExpressCreate(b, db, o) ==
  IF MissingRequired(b)
    THEN Result(Response(400, "error", RequiredMsg, <<>>), db, <<>>)
    ELSE LET r == StorageInsert(db, WritePayload(b), o)
             cs == <<Call("insert", r)>>
         IN IF r.error # "" THEN Failed("Failed to create prompt", r.db, cs)
            ELSE Result(Response(201, "object", "", r.data), r.db, cs)

ExpressUpdate(id, b, db, o) ==
  IF MissingRequired(b)
    THEN Result(Response(400, "error", RequiredMsg, <<>>), db, <<>>)
    ELSE LET r == StorageUpdate(db, id, WritePayload(b), o)
             cs == <<Call("update", r)>>
         IN IF r.error = "PGRST116"
              THEN Result(Response(404, "error", "Prompt not found", <<>>), r.db, cs)
            ELSE IF r.error # "" THEN Failed("Failed to update prompt", r.db, cs)
            ELSE IF r.data = <<>>
              THEN Result(Response(404, "error", "Prompt not found", <<>>), r.db, cs)
            ELSE Result(Response(200, "object", "", r.data), r.db, cs)

ExpressDelete(id, db, o) ==
  LET r == StorageDelete(db, id, o)
      cs == <<Call("delete", r)>>
  IN IF r.error # "" THEN Failed("Failed to delete prompt", r.db, cs)
     ELSE Result(Response(204, "empty", "", <<>>), r.db, cs)

\* app.use(cors()); app.use(express.json()); then the four routes; a request
\* no route takes gets Express's default 404 page. express.json() is strict:
\* it answers 400 to a body that is not the text of an object or an array
ExpressApp(e, db, o) ==
  IF e.httpMethod = "OPTIONS"
    THEN Result(Response(204, "empty", "", <<>>), db, <<>>)
  ELSE IF e.body.json # "object"
    THEN Result(Response(400, "html", "", <<>>), db, <<>>)
  ELSE IF e.httpMethod = "GET" /\ IsCollectionRoute(e) THEN ExpressList(db, o)
  ELSE IF e.httpMethod = "POST" /\ IsCollectionRoute(e)
    THEN ExpressCreate(e.body, db, o)
  ELSE IF e.httpMethod = "PUT" /\ IsItemRoute(e)
    THEN ExpressUpdate(e.path.segs[2], e.body, db, o)
  ELSE IF e.httpMethod = "DELETE" /\ IsItemRoute(e)
    THEN ExpressDelete(e.path.segs[2], db, o)
  ELSE Result(Response(404, "html", "", <<>>), db, <<>>)

\* server/supabaseClient.js logs the missing settings and calls createClient all
\* the same; createClient throws without a URL or a key, the require in the
\* server fails and the server never listens: a request gets nothing
NotListening(db) == Result(Response(0, "refused", "", <<>>), db, <<>>)

\* the headers Express puts on a response: cors() on every one, res.json() and
\* the framework's own pages their content type; res.status(204).send() none
ExpressHeaders(kind) ==
  {<<"Access-Control-Allow-Origin", "*">>}
    \cup (IF kind \in {"error", "array", "object"}
            THEN {<<"Content-Type", "application/json; charset=utf-8">>}
          ELSE IF kind = "html"
            THEN {<<"Content-Type", "text/html; charset=utf-8">>}
          ELSE {})

Sent(r) == [r EXCEPT !.resp.headers = ExpressHeaders(r.resp.kind)]

ExpressServer(e, cfg, db, o) ==
  IF ~Configured(cfg) THEN NotListening(db) ELSE Sent(ExpressApp(e, db, o))

(***************************************************************************)
(* The state machine.                                                     *)
(***************************************************************************)
DB == [rows |-> table, nextId |-> nextId, clock |-> clock]

NoResponse == Response(0, "absent", "", <<>>)

NoEvent == [httpMethod |-> "OPTIONS", path |-> [base |-> FALSE, segs |-> <<"prompts">>],
            body |-> EmptyBody]

NoOutcome == [init |-> TRUE, storage |-> "ok"]

\* the clients that have a request in flight at the same time
Clients == {"a", "b"}

\* formData as useState initialises it and as every reset sets it
EmptyForm ==
  [name |-> "", prompt |-> "", location_id |-> "", business_name |-> "",
   knowledgebase |-> "", inventory |-> ""]

\* no add, edit or delete request of the App component awaits its response
NoSending == [kind |-> "none", body |-> EmptyBody, id |-> ""]

\* the state of the App component as useState initialises it; selectedPrompt
\* is <<>> for null and <<p>> for the prompt p, sending is the add, edit or
\* delete request awaiting its response, want the list the fetchPrompts call
\* started last was answered with
NoUi ==
  [prompts |-> <<>>, loading |-> TRUE, refreshing |-> FALSE,
   showAddModal |-> FALSE, showEditModal |-> FALSE, showDeleteModal |-> FALSE,
   selectedPrompt |-> <<>>, formData |-> EmptyForm, sending |-> NoSending,
   want |-> <<>>]

\* a client with no request in flight
NoFlight ==
  [phase |-> "idle", by |-> "none", req |-> NoEvent, out |-> NoOutcome,
   resp |-> NoResponse]

Init ==
  /\ table = {}
  /\ nextId = 1
  /\ clock = 1
  /\ env \in Envs
  /\ phase = "idle"
  /\ server = "none"
  /\ req = NoEvent
  /\ out = NoOutcome
  /\ resp = NoResponse
  /\ before = {}
  /\ calls = <<>>
  /\ flight = [c \in Clients |-> NoFlight]
  /\ hist = [origin |-> DB, steps |-> <<>>]
  /\ ui = NoUi
  /\ net = <<>>

\* a client sends a request
Receive ==
  /\ phase = "idle"
  /\ \E e \in Events : req' = e
  /\ phase' = "pending"
  /\ UNCHANGED <<table, nextId, clock, env, server, out, resp, before, calls,
                  others>>

\* the deployment named by has run the handler: the store holds its effect and
\* the response is ready
Finish(r, by, o) ==
  /\ r.db.nextId <= MaxId + 1
  /\ table' = r.db.rows
  /\ nextId' = r.db.nextId
  /\ clock' = r.db.clock
  /\ before' = table
  /\ resp' = r.resp
  /\ calls' = r.calls
  /\ out' = o
  /\ server' = by
  /\ phase' = "done"
  /\ UNCHANGED <<env, req, others>>

\* the deployment named by answers request e
HandlerOf(by, e, cfg, db, o) ==
  CASE by = "express" -> ExpressServer(e, cfg, db, o)
    [] by = "netlify2" -> Handler2(e, cfg, db, o)
    [] by = "netlify3" -> Handler3(e, cfg, db, o)
    [] OTHER -> Handler(e, cfg, db, o)

\* the serverless function handles the request
NetlifyHandle ==
  /\ phase = "pending"
  /\ \E o \in OutcomesFor(req) : Finish(Handler(req, env, DB, o), "netlify", o)

\* the serverless function that requires the client library at the top
Netlify2Handle ==
  /\ phase = "pending"
  /\ \E o \in OutcomesFor(req) : Finish(Handler2(req, env, DB, o), "netlify2", o)

\* the serverless function in server/supabaseClient.js
Netlify3Handle ==
  /\ phase = "pending"
  /\ \E o \in OutcomesFor(req) : Finish(Handler3(req, env, DB, o), "netlify3", o)

\* the request goes to the Express server
ExpressHandle ==
  /\ phase = "pending"
  /\ \E o \in {x \in OutcomesFor(req) : x.init} :
        Finish(ExpressServer(req, env, DB, o), "express", o)

\* the client has the response
Deliver ==
  /\ phase = "done"
  /\ phase' = "idle"
  /\ server' = "none"
  /\ req' = NoEvent
  /\ out' = NoOutcome
  /\ resp' = NoResponse
  /\ before' = {}
  /\ calls' = <<>>
  /\ UNCHANGED <<table, nextId, clock, env, others>>

Next ==
  \/ Receive
  \/ NetlifyHandle
  \/ Netlify2Handle
  \/ Netlify3Handle
  \/ ExpressHandle
  \/ Deliver

Spec == Init /\ [][Next]_vars

(***************************************************************************)
(* Requests handled concurrently.  A handler awaits one storage call: the  *)
(* store executes that statement atomically, and the handlers of other     *)
(* requests run before and after it.                                       *)
(***************************************************************************)
\* the serverless function and the server, both in front of the same table
Deployments == {"netlify", "express"}

\* a body that passes the handlers' validation
ValidBody(name) ==
  [EmptyBody EXCEPT !.name = name, !.description = "d1", !.prompt = "p1"]

\* a valid body that also names an id of its own
BodyWithId ==
  [ValidBody("n1") EXCEPT !.knowledgebase = "k1", !.inventory = "i1", !.id = "9"]

Item(id) == [base |-> TRUE, segs |-> <<"prompts", id>>]

Collection == [base |-> TRUE, segs |-> <<"prompts">>]

\* List, Create, Update and Delete requests
CrudEvents ==
  {[httpMethod |-> "GET", path |-> Collection, body |-> EmptyBody]}
    \cup {[httpMethod |-> "POST", path |-> Collection, body |-> b] :
            b \in {ValidBody("n1"), ValidBody("n2"), BodyWithId}}
    \cup {[httpMethod |-> "PUT", path |-> Item(i), body |-> ValidBody("n2")] :
            i \in PathIds}
    \cup {[httpMethod |-> "DELETE", path |-> Item(i), body |-> EmptyBody] :
            i \in PathIds}

InitC ==
  /\ table = {}
  /\ nextId = 1
  /\ clock = 1
  /\ env = [url |-> "u1", key |-> "k1"]
  /\ phase = "idle"
  /\ server = "none"
  /\ req = NoEvent
  /\ out = NoOutcome
  /\ resp = NoResponse
  /\ before = {}
  /\ calls = <<>>
  /\ flight = [c \in Clients |-> NoFlight]
  /\ hist = [origin |-> DB, steps |-> <<>>]
  /\ ui = NoUi
  /\ net = <<>>

\* the variables of the requests handled one at a time, and of the UI
sequential == <<env, phase, server, req, out, resp, before, calls, ui, net>>

\* client c sends a request
Arrive(c) ==
  /\ flight[c].phase = "idle"
  /\ \E e \in CrudEvents :
        flight' = [flight EXCEPT ![c] = [NoFlight EXCEPT !.phase = "pending",
                                                         !.req = e]]
  /\ UNCHANGED <<table, nextId, clock, hist, sequential>>

\* the handler of c's request, run on the store as it was when the store last
\* was quiet
StaleHandle(c) ==
  /\ flight[c].phase = "pending"
  /\ \E o \in {x \in OutcomesFor(flight[c].req) : x.init}, by \in Deployments :
        LET f == flight[c]
            r == HandlerOf(by, f.req, env, hist.origin, o)
        IN /\ r.db.nextId <= MaxId + 1
           /\ table' = r.db.rows
           /\ nextId' = r.db.nextId
           /\ clock' = r.db.clock
           /\ flight' = [flight EXCEPT ![c] = [f EXCEPT !.phase = "done", !.by = by,
                                                        !.out = o, !.resp = r.resp]]
           /\ hist' = [hist EXCEPT !.steps =
                         Append(@, [by |-> by, req |-> f.req, out |-> o,
                                    resp |-> r.resp])]
  /\ UNCHANGED sequential

\* one of the deployments handles c's request: its storage call executes on
\* the store as it is now, and the response is built from the call's result
ConcHandle(c) ==
  /\ flight[c].phase = "pending"
  /\ \E o \in {x \in OutcomesFor(flight[c].req) : x.init}, by \in Deployments :
        LET f == flight[c]
            r == HandlerOf(by, f.req, env, DB, o)
        IN /\ r.db.nextId <= MaxId + 1
           /\ table' = r.db.rows
           /\ nextId' = r.db.nextId
           /\ clock' = r.db.clock
           /\ flight' = [flight EXCEPT ![c] = [f EXCEPT !.phase = "done", !.by = by,
                                                        !.out = o, !.resp = r.resp]]
           /\ hist' = [hist EXCEPT !.steps =
                         Append(@, [by |-> by, req |-> f.req, out |-> o,
                                    resp |-> r.resp])]
  /\ UNCHANGED sequential

\* every request in flight has been answered: the clients take their responses
Settle ==
  /\ \A c \in Clients : flight[c].phase # "pending"
  /\ \E c \in Clients : flight[c].phase = "done"
  /\ flight' = [c \in Clients |-> NoFlight]
  /\ hist' = [origin |-> DB, steps |-> <<>>]
  /\ UNCHANGED <<table, nextId, clock, sequential>>

NextC ==
  \/ \E c \in Clients : Arrive(c)
  \/ \E c \in Clients : ConcHandle(c)
  \/ Settle

SpecC == InitC /\ [][NextC]_vars

(***************************************************************************)
(* client/src/App.js: the App component in front of the serverless         *)
(* function.  net holds the fetchPrompts calls in flight, in the order     *)
(* they were started.                                                      *)
(***************************************************************************)
backend == <<env, phase, server, req, out, resp, before, calls, flight, hist>>

ListEvent == [httpMethod |-> "GET", path |-> Collection, body |-> EmptyBody]

\* what the user types into each field of the form
Typed ==
  [name |-> "n2", prompt |-> "p2", location_id |-> "l2", business_name |-> "b2",
   knowledgebase |-> "k2", inventory |-> "i2"]

\* the inputs of the two forms that carry the required attribute
RequiredFields == {"name", "business_name", "prompt", "knowledgebase", "inventory"}

\* the browser lets the form submit
Submittable(form) == \A f \in RequiredFields : form[f] \notin {"", NULL}

\* JSON.stringify(formData)
BodyOf(form) ==
  [json |-> "object", name |-> form.name, description |-> ABSENT,
   prompt |-> form.prompt, location_id |-> form.location_id,
   business_name |-> form.business_name, knowledgebase |-> form.knowledgebase,
   inventory |-> form.inventory, id |-> ABSENT]

\* the fields openEditModal copies from a prompt
FormOf(p) ==
  [name |-> p.name, prompt |-> p.prompt, location_id |-> p.location_id,
   business_name |-> p.business_name, knowledgebase |-> p.knowledgebase,
   inventory |-> p.inventory]

NoModal == ~ui.showAddModal /\ ~ui.showEditModal /\ ~ui.showDeleteModal

\* fetchPrompts(isRefresh) up to its await
Started(u, isRefresh) ==
  IF isRefresh THEN [u EXCEPT !.refreshing = TRUE] ELSE [u EXCEPT !.loading = TRUE]

\* a fetchPrompts call awaiting its response; last marks the call started last
NewFetch == [stage |-> "sent", data |-> <<>>, last |-> TRUE]

StartFetch(q) == Append([j \in DOMAIN q |-> [q[j] EXCEPT !.last = FALSE]], NewFetch)

\* useEffect(() => { fetchPrompts(); }, []) has run
InitU ==
  /\ table = {}
  /\ nextId = 1
  /\ clock = 1
  /\ env = [url |-> "u1", key |-> "k1"]
  /\ phase = "idle"
  /\ server = "none"
  /\ req = NoEvent
  /\ out = NoOutcome
  /\ resp = NoResponse
  /\ before = {}
  /\ calls = <<>>
  /\ flight = [c \in Clients |-> NoFlight]
  /\ hist = [origin |-> DB, steps |-> <<>>]
  /\ ui = NoUi
  /\ net = <<NewFetch>>

\* another client creates a prompt through the API
OtherCreate ==
  /\ LET e == [httpMethod |-> "POST", path |-> Collection, body |-> ValidBody("n1")]
         r == Handler(e, env, DB, NoOutcome)
     IN /\ r.db.nextId <= MaxOthers + 1
        /\ table' = r.db.rows
        /\ nextId' = r.db.nextId
        /\ clock' = r.db.clock
  /\ UNCHANGED <<ui, net, backend>>

\* the Refresh button: fetchPrompts(true)
Refresh ==
  /\ NoModal
  /\ ~ui.refreshing
  /\ Len(net) < MaxFetch
  /\ ui' = Started(ui, TRUE)
  /\ net' = StartFetch(net)
  /\ UNCHANGED <<table, nextId, clock, backend>>

\* the serverless function answers the k-th fetch in flight
ServeList(k) ==
  /\ k \in 1..Len(net)
  /\ net[k].stage = "sent"
  /\ \E o \in {x \in OutcomesFor(ListEvent) : x.init} :
        LET r == Handler(ListEvent, env, DB, o)
            ok == r.resp.status = 200
        IN /\ net' = [net EXCEPT ![k] = [@ EXCEPT !.stage = "answered",
                                            !.data = IF ok THEN r.resp.data ELSE <<>>]]
           /\ ui' = IF net[k].last
                      THEN [ui EXCEPT !.want = IF ok THEN r.resp.data ELSE <<>>]
                      ELSE ui
  /\ UNCHANGED <<table, nextId, clock, backend>>

Without(q, k) == [j \in 1..(Len(q) - 1) |-> IF j < k THEN q[j] ELSE q[j + 1]]

\* the response of the k-th fetch in flight arrives: fetchPrompts after its
\* await (setPrompts, then the finally block)
CompleteList(k) ==
  /\ k \in 1..Len(net)
  /\ net[k].stage = "answered"
  /\ ui' = [ui EXCEPT !.prompts = net[k].data,
                       !.loading = FALSE, !.refreshing = FALSE]
  /\ net' = Without(net, k)
  /\ UNCHANGED <<table, nextId, clock, backend>>

\* the Add New Prompt button
OpenAdd ==
  /\ NoModal
  /\ ui' = [ui EXCEPT !.showAddModal = TRUE]
  /\ UNCHANGED <<table, nextId, clock, net, backend>>

\* a click on the backdrop of the Add modal
CloseAdd ==
  /\ ui.showAddModal
  /\ ui' = [ui EXCEPT !.showAddModal = FALSE]
  /\ UNCHANGED <<table, nextId, clock, net, backend>>

\* the Cancel button of the Add modal
CancelAdd ==
  /\ ui.showAddModal
  /\ ui' = [ui EXCEPT !.showAddModal = FALSE, !.formData = EmptyForm]
  /\ UNCHANGED <<table, nextId, clock, net, backend>>

\* the Edit button of the k-th prompt displayed; the list is rendered only
\* when loading is false
openEditModal(k) ==
  /\ NoModal
  /\ ~ui.loading
  /\ k \in 1..Len(ui.prompts)
  /\ ui' = [ui EXCEPT !.selectedPrompt = <<ui.prompts[k]>>,
                       !.formData = FormOf(ui.prompts[k]),
                       !.showEditModal = TRUE]
  /\ UNCHANGED <<table, nextId, clock, net, backend>>

\* a click on the backdrop of the Edit modal
CloseEdit ==
  /\ ui.showEditModal
  /\ ui' = [ui EXCEPT !.showEditModal = FALSE]
  /\ UNCHANGED <<table, nextId, clock, net, backend>>

\* the Cancel button of the Edit modal
CancelEdit ==
  /\ ui.showEditModal
  /\ ui' = [ui EXCEPT !.showEditModal = FALSE, !.selectedPrompt = <<>>,
                       !.formData = EmptyForm]
  /\ UNCHANGED <<table, nextId, clock, net, backend>>

\* the Delete button of the k-th prompt displayed
openDeleteModal(k) ==
  /\ NoModal
  /\ ~ui.loading
  /\ k \in 1..Len(ui.prompts)
  /\ ui' = [ui EXCEPT !.selectedPrompt = <<ui.prompts[k]>>, !.showDeleteModal = TRUE]
  /\ UNCHANGED <<table, nextId, clock, net, backend>>

\* a click on the backdrop of the Delete modal
CloseDelete ==
  /\ ui.showDeleteModal
  /\ ui' = [ui EXCEPT !.showDeleteModal = FALSE]
  /\ UNCHANGED <<table, nextId, clock, net, backend>>

\* the Cancel button of the Delete modal
CancelDelete ==
  /\ ui.showDeleteModal
  /\ ui' = [ui EXCEPT !.showDeleteModal = FALSE, !.selectedPrompt = <<>>]
  /\ UNCHANGED <<table, nextId, clock, net, backend>>

\* the inputs of the two forms from top to bottom
FormOrder ==
  <<"name", "location_id", "business_name", "prompt", "knowledgebase", "inventory">>

\* the user, who fills a form from top to bottom, types into its i-th field
handleInputChange(i) ==
  /\ ui.showAddModal \/ ui.showEditModal
  /\ \A j \in 1..(i - 1) : ui.formData[FormOrder[j]] = Typed[FormOrder[j]]
  /\ ui.formData[FormOrder[i]] # Typed[FormOrder[i]]
  /\ ui' = [ui EXCEPT !.formData[FormOrder[i]] = Typed[FormOrder[i]]]
  /\ UNCHANGED <<table, nextId, clock, net, backend>>

\* handleAddPrompt up to its await
handleAddPrompt ==
  /\ ui.showAddModal
  /\ Submittable(ui.formData)
  /\ ui.sending = NoSending
  /\ ui' = [ui EXCEPT !.sending = [kind |-> "add", body |-> BodyOf(ui.formData),
                                    id |-> ""]]
  /\ UNCHANGED <<table, nextId, clock, net, backend>>

\* handleEditPrompt up to its await; with selectedPrompt null the request url
\* throws and the catch block only logs
handleEditPrompt ==
  /\ ui.showEditModal
  /\ ui.selectedPrompt # <<>>
  /\ Submittable(ui.formData)
  /\ ui.sending = NoSending
  /\ ui' = [ui EXCEPT !.sending = [kind |-> "edit", body |-> BodyOf(ui.formData),
                                    id |-> ui.selectedPrompt[1].id]]
  /\ UNCHANGED <<table, nextId, clock, net, backend>>

\* handleDeletePrompt up to its await; with selectedPrompt null the request
\* url throws and the catch block only logs
handleDeletePrompt ==
  /\ ui.showDeleteModal
  /\ ui.selectedPrompt # <<>>
  /\ ui.sending = NoSending
  /\ ui' = [ui EXCEPT !.sending = [kind |-> "delete", body |-> EmptyBody,
                                    id |-> ui.selectedPrompt[1].id]]
  /\ UNCHANGED <<table, nextId, clock, net, backend>>

\* the request the App component sends for an add, edit or delete
EventOf(s) ==
  IF s.kind = "add"
    THEN [httpMethod |-> "POST", path |-> Collection, body |-> s.body]
    ELSE IF s.kind = "edit"
      THEN [httpMethod |-> "PUT", path |-> Item(s.id), body |-> s.body]
      ELSE [httpMethod |-> "DELETE", path |-> Item(s.id), body |-> s.body]

\* the three handlers after their await, when response.ok
Accepted(u) ==
  Started([u EXCEPT !.showAddModal = IF u.sending.kind = "add" THEN FALSE ELSE @,
                    !.showEditModal = IF u.sending.kind = "edit" THEN FALSE ELSE @,
                    !.showDeleteModal = IF u.sending.kind = "delete" THEN FALSE ELSE @,
                    !.selectedPrompt = IF u.sending.kind = "add" THEN @ ELSE <<>>,
                    !.formData = IF u.sending.kind = "delete" THEN @ ELSE EmptyForm,
                    !.sending = NoSending],
          FALSE)

\* the serverless function handles the add, edit or delete request and the
\* handler that sent it runs to its end
Answer ==
  /\ ui.sending # NoSending
  /\ \E o \in {x \in OutcomesFor(EventOf(ui.sending)) : x.init} :
        LET r == Handler(EventOf(ui.sending), env, DB, o)
            ok == r.resp.status \in 200..299
        IN /\ r.db.nextId <= MaxId + 1
           /\ ok => Len(net) < MaxFetch
           /\ table' = r.db.rows
           /\ nextId' = r.db.nextId
           /\ clock' = r.db.clock
           /\ ui' = IF ok THEN Accepted(ui) ELSE [ui EXCEPT !.sending = NoSending]
           /\ net' = IF ok THEN StartFetch(net) ELSE net
  /\ UNCHANGED backend

NextU ==
  \/ OtherCreate
  \/ Refresh
  \/ \E k \in 1..MaxFetch : ServeList(k)
  \/ \E k \in 1..MaxFetch : CompleteList(k)
  \/ OpenAdd
  \/ CloseAdd
  \/ CancelAdd
  \/ \E k \in 1..MaxOthers : openEditModal(k)
  \/ CloseEdit
  \/ CancelEdit
  \/ \E k \in 1..MaxOthers : openDeleteModal(k)
  \/ CloseDelete
  \/ CancelDelete
  \/ \E i \in DOMAIN FormOrder : handleInputChange(i)
  \/ handleAddPrompt
  \/ handleEditPrompt
  \/ handleDeletePrompt
  \/ Answer

SpecU == InitU /\ [][NextU]_vars

\* C29: once every fetchPrompts call has completed, the list displayed is the
\* response to the call that was started last and loading and refreshing are
\* both false
C29_LatestFetchShown ==
  (net = <<>>) => (ui.prompts = ui.want /\ ~ui.loading /\ ~ui.refreshing)

\* C30: whenever the Add New Prompt modal is opened, no field of the form
\* holds a value that openEditModal loaded from a prompt: every field is empty
\* or holds what the user typed
C30_AddFormEmpty ==
  [][(~ui.showAddModal /\ ui'.showAddModal)
       => \A f \in DOMAIN EmptyForm : ui'.formData[f] \in {"", Typed[f]}]_vars

(***************************************************************************)
(* Properties.                                                             *)
(***************************************************************************)
\* the request has been handled with both connection settings present and the
\* client library loaded
Served == phase = "done" /\ Configured(env) /\ out.init

\* the storage call of the request, if it makes one, returns no error
StorageOk == out.storage = "ok"

\* POST /prompts with a JSON object as body
IsCreateRequest ==
  /\ req.httpMethod = "POST"
  /\ req.path = [base |-> TRUE, segs |-> <<"prompts">>]
  /\ req.body.json = "object"

\* <method> /prompts/{id}
IsItemRequest(method) ==
  /\ req.httpMethod = method
  /\ req.path.base
  /\ IsItemPath(req.path.segs)

PathId == req.path.segs[2]

OptionalFields == {"location_id", "business_name", "knowledgebase", "inventory"}

\* the handler applied once more to the same request, on the present table
Again == HandlerOf(server, req, env, DB, out)

\* C1: a Create whose body has a non-empty name and a non-empty prompt is
\* answered 201 with the created record, the table has exactly one record more
\* than before, and that record's fields are the submitted ones.
C1_CreateAccepted ==
  (Served /\ StorageOk /\ IsCreateRequest
     /\ ~Falsy(req.body.name) /\ ~Falsy(req.body.prompt))
  => /\ resp.status = 201
     /\ Len(resp.data) = 1
     /\ before \subseteq table
     /\ Cardinality(table \ before) = 1
     /\ \A r \in table \ before :
          /\ r = resp.data[1]
          /\ r.name = req.body.name
          /\ r.prompt = req.body.prompt
          /\ \A f \in OptionalFields : req.body[f] # ABSENT => r[f] = req.body[f]

\* C2: a Create whose name or prompt is absent or empty is answered 400, makes
\* no storage call and leaves the table as it was.
C2_CreateRejected ==
  (Served /\ IsCreateRequest /\ (Falsy(req.body.name) \/ Falsy(req.body.prompt)))
  => /\ resp.status = 400
     /\ resp.kind = "error"
     /\ calls = <<>>
     /\ table = before

C2_Witness ==
  /\ Served /\ IsCreateRequest
  /\ req.body.name = "" /\ req.body.description = "d1" /\ req.body.prompt = "p1"
  /\ resp.status = 400
  /\ table # {}

\* C3: a Create that omits location_id and whose storage calls succeed returns,
\* and stores, a record whose location_id equals its own id.
C3_LocationIdBackfilled ==
  (Served /\ StorageOk /\ IsCreateRequest /\ req.body.location_id = ABSENT
     /\ resp.status = 201)
  => /\ resp.data[1].location_id = resp.data[1].id
     /\ \A r \in table \ before : r.location_id = r.id

\* C4: a Create answered with the non-backfilled record (the insert went
\* through, location_id was not set to the id) is a 201 that carries a warning
\* annotation, and the inserted record is in the table.
C4_BackfillFailureWarned ==
  (Served /\ IsCreateRequest /\ req.body.location_id = ABSENT
     /\ resp.status = 201 /\ resp.data[1].location_id # resp.data[1].id)
  => /\ "warning" \in (DOMAIN resp) \cup (DOMAIN (resp.data[1]))
     /\ resp.data[1] \in table

\* C5: an Update with a non-empty name and prompt whose id matches no record
\* is answered 404 and leaves the table as it was.
C5_UpdateUnknownId ==
  (Served /\ StorageOk /\ IsItemRequest("PUT") /\ req.body.json = "object"
     /\ ~Falsy(req.body.name) /\ ~Falsy(req.body.prompt)
     /\ PathId \notin Ids(before))
  => /\ resp.status = 404
     /\ table = before

\* C6: an Update whose name or prompt is absent or empty is answered 400 for
\* an id that exists and for one that does not, makes no storage call, and
\* leaves every record (the targeted one included) as it was.
C6_UpdateRejected ==
  (Served /\ IsItemRequest("PUT") /\ req.body.json = "object"
     /\ (Falsy(req.body.name) \/ Falsy(req.body.prompt)))
  => /\ resp.status = 400
     /\ resp.kind = "error"
     /\ calls = <<>>
     /\ table = before

C6_Witness ==
  /\ Served /\ IsItemRequest("PUT")
  /\ PathId \in Ids(table)
  /\ req.body.name = "n2" /\ req.body.description = "d1" /\ req.body.prompt = ""
  /\ RowOf(table, PathId).name = "n1"
  /\ resp.status = 400

\* C7: a successful Update shows, in its response and in the table every later
\* List reads, the business_name, location_id, knowledgebase and inventory the
\* request supplied.
C7_UpdateFullReplace ==
  (Served /\ IsItemRequest("PUT") /\ req.body.json = "object" /\ resp.status = 200)
  => \A f \in OptionalFields :
       req.body[f] # ABSENT =>
         /\ resp.data[1][f] = req.body[f]
         /\ \E r \in table : r.id = PathId /\ r[f] = req.body[f]

\* C8: a successful Update of record id leaves that record's id and created_at
\* as they were and leaves every other record as it was, whatever keys the body
\* has.
C8_UpdateFrame ==
  (Served /\ IsItemRequest("PUT") /\ resp.status = 200)
  => /\ PathId \in Ids(before)
     /\ PathId \in Ids(table)
     /\ resp.data[1].id = PathId
     /\ resp.data[1] \in table
     /\ resp.data[1].created_at = RowOf(before, PathId).created_at
     /\ {r \in table : r.id # PathId} = {r \in before : r.id # PathId}
     /\ Cardinality(table) = Cardinality(before)

C8_Witness ==
  /\ Served /\ IsItemRequest("PUT") /\ resp.status = 200
  /\ req.body.id = "9"
  /\ Cardinality(table) = 2
  /\ RowOf(table, PathId).name # RowOf(before, PathId).name

\* C9: a Delete whose storage call succeeds, for an id that matches no record,
\* is answered 204 without an error and leaves the table as it was; and the
\* same Delete issued once more after any Delete gets the same response and
\* leaves the same table.
C9_DeleteIdempotent ==
  (Served /\ StorageOk /\ IsItemRequest("DELETE"))
  => /\ PathId \notin Ids(before) =>
          /\ resp.status = 204
          /\ resp.error = ""
          /\ table = before
     /\ Again.resp = resp
     /\ Again.db.rows = table

C9_Witness ==
  /\ Served /\ StorageOk /\ IsItemRequest("DELETE")
  /\ PathId \in {ToString(i) : i \in 1..(nextId - 1)}
  /\ PathId \notin Ids(before)
  /\ before # {}
  /\ resp.status = 204

\* the List a client issues now
ListNow == IF server = "express" THEN ExpressList(DB, out) ELSE ListOp(DB, out)

C10_Deleted ==
  (Served /\ StorageOk /\ IsItemRequest("DELETE") /\ PathId \in Ids(before))
  => /\ resp.status = 204
     /\ resp.kind = "empty"
     /\ table = before \ {RowOf(before, PathId)}
     /\ \A k \in 1..Len(ListNow.resp.data) : ListNow.resp.data[k].id # PathId

\* an id the table generated and no longer holds is not in the next table
C10_Gone ==
  \A i \in 1..(nextId - 1) :
    ToString(i) \notin Ids(table) => ToString(i) \notin Ids(table')

\* C10: a Delete of an existing id whose storage call succeeds is answered 204
\* with an empty body, removes that record and no other, and no later List
\* contains the id.
C10_DeleteFrame == [](C10_Deleted) /\ [][C10_Gone]_vars

C10_Witness ==
  /\ Served /\ StorageOk /\ IsItemRequest("DELETE")
  /\ PathId \in Ids(before)
  /\ Cardinality(before) = 2
  /\ resp.status = 204

\* the table before the request, as the storage collaborator held it
DBBefore == [rows |-> before, nextId |-> nextId, clock |-> clock]

\* the ids of a List result, in the order of the result
IdsInOrder(rs) == [k \in 1..Len(rs) |-> rs[k].id]

\* the storage call the request made
MadeCall(op) == calls # <<>> /\ calls[1].op = op

\* C11: a List answers with the stored records in ascending created_at order,
\* after any sequence of Create, Update and Delete; and a successful Update
\* leaves every record at the position it had in the List result.
C11_ListOrdered ==
  /\ (phase = "done" /\ MadeCall("select") /\ out.storage = "ok")
       => /\ resp.status = 200
          /\ Len(resp.data) = Cardinality(table)
          /\ {resp.data[k] : k \in 1..Len(resp.data)} = table
          /\ \A j, k \in 1..Len(resp.data) :
               j < k => resp.data[j].created_at <= resp.data[k].created_at
  /\ (Served /\ IsItemRequest("PUT") /\ resp.status = 200)
       => IdsInOrder(StorageSelect(DB, out).data)
            = IdsInOrder(StorageSelect(DBBefore, out).data)

C11_Witness ==
  /\ phase = "done" /\ MadeCall("select") /\ out.storage = "ok"
  /\ Len(resp.data) = 2
  /\ resp.data[1].created_at < resp.data[2].created_at
  /\ resp.data[1].name # resp.data[2].name

\* C12: when the storage call of a List returns no error, the answer is 200 with
\* a JSON array, which is empty when the table has no record and when the
\* storage collaborator returned a null data value; the body is never null.
C12_ListNeverNull ==
  (phase = "done" /\ MadeCall("select") /\ calls[1].error = "")
  => /\ resp.status = 200
     /\ resp.kind = "array"
     /\ table = {} => resp.data = <<>>
     /\ out.storage = "null" => resp.data = <<>>

C12_Witness ==
  /\ phase = "done" /\ MadeCall("select") /\ calls[1].error = ""
  /\ out.storage = "null"
  /\ table # {}
  /\ resp.status = 200 /\ resp.kind = "array" /\ resp.data = <<>>

\* the storage call of the request returned an error other than 'no row'
StorageFailed == calls # <<>> /\ calls[1].error = StorageFailure

\* C13 as stated: a storage failure during List, Create, Update or Delete is
\* answered 500 with an error field and a details string holding the
\* underlying message.
C13_Original ==
  (phase = "done" /\ StorageFailed)
  => /\ resp.status = 500
     /\ {"error", "details"} \subseteq resp.keys
     /\ resp.details = StorageFailure

\* C13: a storage failure during List, Create, Update (other than the
\* no-matching-row outcome) or Delete is answered 500 with an error field,
\* never 2xx, 400 or 404; the serverless handlers add a details string holding
\* the underlying message, the Express routes send a generic message only.
C13_StorageFailure ==
  (phase = "done" /\ StorageFailed)
  => /\ resp.status = 500
     /\ "error" \in resp.keys
     /\ resp.error # ""
     /\ IF server = "express"
          THEN resp.keys = {"error"}
          ELSE "details" \in resp.keys /\ resp.details = StorageFailure

C13_Witness ==
  /\ phase = "done" /\ StorageFailed
  /\ server = "netlify"
  /\ IsItemRequest("PUT") /\ PathId \in Ids(table)
  /\ resp.status = 500 /\ resp.details = StorageFailure

\* a serverless handler took the request
Serverless == server \in {"netlify", "netlify2", "netlify3"}

\* C14: every request ends with the handler returning a response object,
\* whatever the method, path, body, storage outcome and client-initialisation
\* outcome.
C14_AlwaysResponds ==
  (phase = "done" /\ (Serverless \/ Configured(env)))
  => /\ resp.kind # "rejected"
     /\ resp.status \in {200, 201, 204, 400, 404, 500}

\* the response was built by the repository's code: by a serverless handler,
\* or by one of the four Express routes
BuiltByHandler ==
  \/ server \in {"netlify", "netlify2", "netlify3"}
  \/ /\ server = "express"
     /\ req.body.json = "object"
     /\ \/ req.httpMethod \in {"GET", "POST"} /\ IsCollectionRoute(req)
        \/ req.httpMethod \in {"PUT", "DELETE"} /\ IsItemRoute(req)

\* C15: every response with status 400, 404 or 500 that a handler builds is a
\* JSON object with a non-empty error string.
C15_ErrorField ==
  (phase = "done" /\ BuiltByHandler /\ resp.status \in {400, 404, 500})
  => /\ resp.kind = "error"
     /\ "error" \in resp.keys
     /\ resp.error # ""

C15_Witness ==
  /\ phase = "done" /\ BuiltByHandler
  /\ resp.status = 404 /\ resp.error = "Prompt not found"
  /\ table # {}

\* the path the serverless handler that took the request dispatches on
SubpathOf == IF server = "netlify2" THEN Subpath2(req) ELSE Subpath(req)

IsItemSubpath == Len(SubpathOf) = 2 /\ SubpathOf[1] = "prompts" /\ SubpathOf[2] # ""

\* C16 as stated: List only for GET /prompts, Create only for POST /prompts,
\* Update and Delete only for PUT and DELETE /prompts/{id}; every other
\* non-OPTIONS, non-health combination gets 404 {error, method, path} without
\* a storage call.
C16_Original ==
  (Served /\ Serverless /\ req.httpMethod # "OPTIONS"
     /\ ~(req.httpMethod = "GET" /\ SubpathOf = <<"health">>))
  => /\ MadeCall("select") => req.httpMethod = "GET" /\ SubpathOf = <<"prompts">>
     /\ MadeCall("insert") => req.httpMethod = "POST" /\ SubpathOf = <<"prompts">>
     /\ MadeCall("update") => req.httpMethod = "PUT" /\ IsItemSubpath
     /\ MadeCall("delete") => req.httpMethod = "DELETE" /\ IsItemSubpath
     /\ ~( \/ req.httpMethod \in {"GET", "POST"} /\ SubpathOf = <<"prompts">>
           \/ req.httpMethod \in {"PUT", "DELETE"} /\ IsItemSubpath )
          => /\ resp.status = 404
             /\ resp.error = "Not found"
             /\ resp.keys = {"error", "method", "path"}
             /\ resp.method = req.httpMethod
             /\ resp.path = SubpathOf
             /\ calls = <<>>

\* the method and path are one of the handler's routes
OnRoute ==
  \/ req.httpMethod = "GET" /\ SubpathOf = <<"prompts">>
  \/ req.httpMethod = "GET" /\ SubpathOf = <<>> /\ server # "netlify2"
  \/ req.httpMethod = "GET" /\ SubpathOf = <<"health">> /\ server # "netlify2"
  \/ req.httpMethod = "POST" /\ SubpathOf = <<"prompts">>
  \/ req.httpMethod \in {"PUT", "DELETE"} /\ IsItemSubpath

\* C16: in the serverless handlers a request reaches List only for GET
\* /prompts (and GET / in the handlers that import the client library),
\* Create only for POST /prompts, Update only for PUT /prompts/{id}, Delete
\* only for DELETE /prompts/{id}; every non-OPTIONS request on no route is
\* answered 404 {error: "Not found", path}, with the method too except in the
\* handler that requires the client library, and makes no storage call.
C16_Routing ==
  (Served /\ Serverless /\ req.httpMethod # "OPTIONS")
  => /\ MadeCall("select") =>
          /\ req.httpMethod = "GET"
          /\ \/ SubpathOf = <<"prompts">>
             \/ SubpathOf = <<>> /\ server # "netlify2"
     /\ MadeCall("insert") => req.httpMethod = "POST" /\ SubpathOf = <<"prompts">>
     /\ MadeCall("update") => req.httpMethod = "PUT" /\ IsItemSubpath
     /\ MadeCall("delete") => req.httpMethod = "DELETE" /\ IsItemSubpath
     /\ ~OnRoute
          => /\ resp.status = 404
             /\ resp.error = "Not found"
             /\ resp.path = SubpathOf
             /\ resp.keys = IF server = "netlify2" THEN {"error", "path"}
                            ELSE {"error", "method", "path"}
             /\ server # "netlify2" => resp.method = req.httpMethod
             /\ calls = <<>>
             /\ table = before

C16_Witness ==
  /\ Served /\ server = "netlify"
  /\ req.httpMethod = "DELETE" /\ req.path = [base |-> TRUE, segs |-> <<"prompts", "">>]
  /\ table # {}
  /\ resp.status = 404 /\ resp.method = "DELETE"

\* C17: the serverless handlers answer an OPTIONS request on any path with 204,
\* without a body and without a storage call, whether or not the connection
\* settings are present.
C17_Preflight ==
  (phase = "done" /\ Serverless /\ req.httpMethod = "OPTIONS")
  => /\ resp.status = 204
     /\ resp.kind \in {"absent", "empty"}
     /\ calls = <<>>
     /\ table = before

C17_Witness ==
  /\ phase = "done" /\ Serverless /\ req.httpMethod = "OPTIONS"
  /\ ~Configured(env)
  /\ ~out.init
  /\ req.path = [base |-> TRUE, segs |-> <<"other">>]
  /\ resp.status = 204

\* the request is a List, Create, Update or Delete request
IsCrudRequest ==
  /\ req.path.base
  /\ \/ req.httpMethod \in {"GET", "POST"} /\ req.path.segs = <<"prompts">>
     \/ req.httpMethod \in {"PUT", "DELETE"} /\ IsItemPath(req.path.segs)

\* C18: when the connection URL or key is absent and the client library
\* loads, every List, Create, Update and Delete request is answered 500 with
\* the configuration error in its error field, and no storage call is made.
C18_ConfigurationError ==
  (phase = "done" /\ ~Configured(env) /\ out.init /\ IsCrudRequest)
  => /\ resp.status = 500
     /\ resp.error = MissingEnvMsg
     /\ calls = <<>>

\* C19: GET /health is answered 200 with {ok: true, env}, each flag telling
\* whether the setting is present, for every configuration of the two
\* settings, and makes no storage call.
C19_HealthReports ==
  (phase = "done" /\ server \in {"netlify", "netlify3"} /\ out.init
     /\ req.httpMethod = "GET" /\ Subpath(req) = <<"health">>)
  => /\ resp.status = 200
     /\ resp.kind = "health"
     /\ resp.urlSet = ~Falsy(env.url)
     /\ resp.keySet = ~Falsy(env.key)
     /\ calls = <<>>

\* configurations with the same settings present as cfg, whatever their values
SamePresence(cfg) ==
  { c \in [url : {ABSENT, "u1", "u2"}, key : {ABSENT, "k1", "k2"}] :
      /\ Falsy(c.url) = Falsy(cfg.url)
      /\ Falsy(c.key) = Falsy(cfg.key) }

\* C20: the health response, the configuration-error response and the 404
\* response are the same under every configuration that has the same settings
\* present, whatever the values of the URL and the key.
C20_NoSecretInBody ==
  (phase = "done"
     /\ \/ resp.kind = "health"
        \/ resp.error = MissingEnvMsg
        \/ resp.status = 404 /\ resp.error = "Not found")
  => \A c \in SamePresence(env) :
       HandlerOf(server, req, c, DBBefore, out).resp = resp

C20_Witness ==
  /\ phase = "done"
  /\ resp.kind = "health"
  /\ env = [url |-> "u1", key |-> "k1"]
  /\ resp.urlSet /\ resp.keySet

(***************************************************************************)
(* Headers and the stored records.                                         *)
(***************************************************************************)
\* C21: every response a serverless handler returns, on every path, carries
\* Content-Type: application/json and the three cross-origin headers.
C21_Headers ==
  (phase = "done" /\ Serverless /\ resp.kind # "rejected")
  => /\ <<"Content-Type", "application/json">> \in resp.headers
     /\ <<"Access-Control-Allow-Origin", "*">> \in resp.headers
     /\ <<"Access-Control-Allow-Headers", "Content-Type">> \in resp.headers
     /\ <<"Access-Control-Allow-Methods", "GET,POST,PUT,DELETE,OPTIONS">>
           \in resp.headers

C21_Witness ==
  /\ phase = "done" /\ server = "netlify"
  /\ resp.status = 500 /\ resp.error = "Initialization error"
  /\ resp.headers = jsonHeaders

\* C23: every stored record has a non-empty name and a non-empty prompt.
C23_NameAndPrompt ==
  \A r \in table : /\ r.name \notin {"", NULL, ABSENT}
                   /\ r.prompt \notin {"", NULL, ABSENT}

\* a record is stored, and an Update that tried to empty its name was refused
C23_Witness ==
  /\ Served /\ IsItemRequest("PUT") /\ req.body.json = "object"
  /\ req.body.name = "" /\ ~Falsy(req.body.description) /\ ~Falsy(req.body.prompt)
  /\ PathId \in Ids(table)
  /\ resp.status = 400

(***************************************************************************)
(* Concurrent requests.                                                    *)
(***************************************************************************)
\* the steps, handled one after the other from store db, give the recorded
\* responses; the store they leave
RECURSIVE Replay(_, _)
Replay(db, steps) ==
  IF steps = <<>> THEN [ok |-> TRUE, db |-> db]
  ELSE LET s == Head(steps)
           r == HandlerOf(s.by, s.req, env, db, s.out)
       IN IF r.resp = s.resp THEN Replay(r.db, Tail(steps))
          ELSE [ok |-> FALSE, db |-> db]

\* C24: the stored records have pairwise distinct ids, and the id a successful
\* Create returns is the id of no record in the store at the time of the
\* insert, also when several Creates are in flight together.
C24_DistinctIds ==
  /\ [](\A r, s \in table : r.id = s.id => r = s)
  /\ [][\A c \in Clients :
          (flight[c].phase = "pending" /\ flight'[c].phase = "done"
             /\ flight'[c].resp.status = 201)
          => /\ flight'[c].resp.data[1].id \notin Ids(table)
             /\ flight'[c].resp.data[1].id \in Ids(table')]_vars

\* two Creates were in flight together and both were answered 201
C24_Witness ==
  /\ \A c \in Clients : flight[c].phase = "done" /\ flight[c].resp.status = 201
  /\ Cardinality(Ids(table)) >= 2

SamplePrompts ==
  {"No Response (Escalation)", "Response (Support)", "Processing (Reminder)",
   "Stuck (Follow-up)", "No Response (Pending)"}

\* C26: before any Create, a List answers with the five sample prompts the
\* README names.
C26_SampleData ==
  (Served /\ StorageOk /\ nextId = 1
     /\ req.httpMethod = "GET" /\ req.path = [base |-> TRUE, segs |-> <<"prompts">>])
  => /\ resp.status = 200
     /\ Len(resp.data) = 5
     /\ {resp.data[k].name : k \in 1..Len(resp.data)} = SamplePrompts

(***************************************************************************)
(* The UI's requests.                                                      *)
(***************************************************************************)
\* C27: a Create with the body the UI's Add form sends when every field is
\* filled in is answered 201 and the new record is in the table, as the next
\* List shows.
C27_FormCreate ==
  (Served /\ StorageOk /\ IsCreateRequest /\ req.body = FormBody)
  => /\ resp.status = 201
     /\ \E r \in table \ before : r.name = "n1" /\ r.prompt = "p1"
     /\ \E k \in 1..Len(ListNow.data) : ListNow.data[k].name = "n1"

(***************************************************************************)
(* The Express server against the serverless handlers.                     *)
(***************************************************************************)
\* C28: on every List, Create, Update and Delete request whose body is
\* well-formed JSON, and for every storage outcome, the Express server and the
\* serverless handlers make the same storage call, leave the same table and
\* answer with the same status.
C28_Interchangeable ==
  (phase = "done" /\ Configured(env) /\ out.init /\ IsCrudRequest
     /\ req.body.json \in {"object", "null"})
  => LET x == HandlerOf("express", req, env, DB, out)
     IN \A by \in {"netlify", "netlify2", "netlify3"} :
          LET n == HandlerOf(by, req, env, DB, out)
          IN /\ x.resp.status = n.resp.status
             /\ x.calls = n.calls
             /\ x.db = n.db

====
